---- MODULE Spec2Model ----
(***************************************************************************)
(* Folder / file hierarchy management of the cloud-storage backend.        *)
(* The relational store (Folder and File tables with their foreign keys),  *)
(* the content store (the uploads directory) and the HTTP handlers of the  *)
(* folder, file and unified item controllers are modelled; every handler   *)
(* is one action, except the recursive folder duplication, whose database  *)
(* statements are separate steps, and the statement-by-statement forms of  *)
(* toggleImportant and getOrCreateCategoryByName.                          *)
(***************************************************************************)
EXTENDS Integers, Sequences, FiniteSets, TLC

\* ---------------------------------------------------------------- bounds
\* Folder ids 1..MaxFolders and file ids 1..MaxFiles can be issued.
MaxFolders == 3
MaxFiles == 2

\* Principals carried by the verified token (req.user.id).
Users == {1, 2}

\* null / undefined request value or column value
NULL == 0

FolderIds == 1..MaxFolders
FileIds == 1..MaxFiles

\* Folder names a client sends; <<>> is the empty string.
FolderNames == {<<>>, <<"Docs">>}
\* File names a client uploads: one with an extension, one without.
FileNames == {<<"a", ".txt">>, <<"notes">>}
Extensions == {".txt"}

\* url of createFile's record ("placeholder.txt"): no content is ever stored
Placeholder == 0

VARIABLES folders, files, store, nextFolderId, nextFileId, dup, resp,
          lockPasswords, categories, nextCategoryId, calls

\* the lockPassword column of the User rows and the Category table
userVars == <<lockPasswords, categories, nextCategoryId>>

vars == <<folders, files, store, nextFolderId, nextFileId, dup, resp,
          lockPasswords, categories, nextCategoryId, calls>>

\* --------------------------------------------------------------- helpers
FolderExists(id) == id \in DOMAIN folders
FileExists(id) == id \in DOMAIN files

\* resp is the last request and its answer: the handler, the principal, the
\* item type, the id and destination sent, the status answered, the rows and
\* contents the answer carries (out), the rows the request removed (gone) and
\* the subfolder listing of an opened folder (subfolders)
NoOut == [folders |-> {}, files |-> {}, content |-> {}]
NoRows == [folders |-> {}, files |-> {}]

Response(op, u, kind, id, target, status) ==
    [op |-> op, user |-> u, kind |-> kind, id |-> id, target |-> target,
     status |-> status, out |-> NoOut, gone |-> NoRows, subfolders |-> {}]

Reveal(op, u, kind, id, target, status, fo, fi, co) ==
    [op |-> op, user |-> u, kind |-> kind, id |-> id, target |-> target,
     status |-> status, out |-> [folders |-> fo, files |-> fi, content |-> co],
     gone |-> NoRows, subfolders |-> {}]

Removed(op, u, kind, id, status, fo, fi) ==
    [op |-> op, user |-> u, kind |-> kind, id |-> id, target |-> NULL,
     status |-> status, out |-> NoOut, gone |-> [folders |-> fo, files |-> fi],
     subfolders |-> {}]

\* the rows a cascading delete of folder id removes: the folder, every folder
\* whose parentId leads to it (Folder_parentId_fkey ON DELETE CASCADE) ...
RECURSIVE CascadeClosure(_, _)
CascadeClosure(fs, S) ==
    LET more == {g \in DOMAIN fs : fs[g].parentId \in S} \ S
    IN IF more = {} THEN S ELSE CascadeClosure(fs, S \cup more)

\* (a delete that removes the row alone, without the cascade to subfolders)
CascadeFoldersRowOnly(fs, id) == {id}

CascadeFolders(fs, id) == CascadeClosure(fs, {id})

\* ... and every file placed in one of them (File_folderId_fkey ON DELETE CASCADE)
CascadeFiles(fl, S) == {f \in DOMAIN fl : fl[f].folderId \in S}

\* the folders of a principal
Owned(u) == {id \in DOMAIN folders : folders[id].userId = u}

Restrict(fn, S) == [x \in S |-> fn[x]]

\* prisma.folder.delete: the row and everything the foreign keys cascade to
FolderDelete(op, u, id) ==
    LET gone == CascadeFolders(folders, id)
    IN /\ folders' = Restrict(folders, DOMAIN folders \ gone)
       /\ files' = Restrict(files, DOMAIN files \ CascadeFiles(files, gone))
       /\ resp' = Removed(op, u, "folder", id, 200, gone, CascadeFiles(files, gone))

Idle == dup.stack = <<>> /\ ~dup.active

\* passwords a client sends, as sequences of characters; <<>> is the empty
\* string or no password at all (both are falsy in the handlers)
NoPassword == <<>>
Passwords == {NoPassword, <<"p">>, <<" ", "p">>, <<"q">>}

\* String.prototype.trim
RECURSIVE TrimLeft(_)
TrimLeft(p) == IF p # <<>> /\ Head(p) = " " THEN TrimLeft(Tail(p)) ELSE p

RECURSIVE TrimRight(_)
TrimRight(p) ==
    IF p # <<>> /\ p[Len(p)] = " " THEN TrimRight(SubSeq(p, 1, Len(p) - 1)) ELSE p

Trim(p) == TrimRight(TrimLeft(p))

\* the lockPassword column when no lock password was ever set (null)
NoHash == <<>>

\* bcrypt.hash(password, 10): a value that is not the password and from which
\* bcrypt.compare recognises the password it was made of
Hash(p) == <<"$2a$10$">> \o p

\* (a comparison that accepts every password)
CompareAny(p, h) == TRUE

\* bcrypt.compare(password, hash)
Compare(p, h) == h = Hash(p)

\* ---------------------------------------------------------------- state
\* Handlers whose database statements are taken one at a time: a handler
\* awaits each statement, and the statements of other requests run in
\* between. calls holds, for each of the requests in flight, the handler, the
\* principal, the id or the name sent and what its first statement read.
Slots == {1, 2}

NoCall == [pc |-> "none", user |-> NULL, id |-> NULL, name |-> <<>>, flag |-> FALSE]

NoDup == [active |-> FALSE, user |-> NULL, src |-> NULL, target |-> NULL,
          root |-> NULL, stack |-> <<>>]

Init ==
    /\ folders = <<>>
    /\ files = <<>>
    /\ store = {}
    /\ nextFolderId = 1
    /\ nextFileId = 1
    /\ dup = NoDup
    /\ resp = Response("none", NULL, "none", NULL, NULL, 200)
    /\ lockPasswords = [u \in Users |-> NoHash]
    /\ categories = <<>>
    /\ nextCategoryId = 1
    /\ calls = [s \in Slots |-> NoCall]

NewFolder(name, u, parentId) ==
    [name |-> name, userId |-> u, parentId |-> parentId,
     isLocked |-> FALSE, lockPassword |-> NULL, isImportant |-> FALSE]

\* -------------------------------------------------------- folder handlers
\* POST /folders/create
CreateFolder(u, name, parentId) ==
    /\ Idle
    /\ IF name = <<>>
       THEN /\ resp' = Response("createFolder", u, "folder", NULL, parentId, 400)
            /\ UNCHANGED <<folders, nextFolderId>>
       ELSE IF parentId # NULL /\ ~FolderExists(parentId)
       THEN \* the insert violates Folder_parentId_fkey; the catch answers 500
            /\ resp' = Response("createFolder", u, "folder", NULL, parentId, 500)
            /\ UNCHANGED <<folders, nextFolderId>>
       ELSE /\ nextFolderId <= MaxFolders
            /\ folders' = (nextFolderId :> NewFolder(name, u, parentId)) @@ folders
            /\ nextFolderId' = nextFolderId + 1
            /\ resp' = Response("createFolder", u, "folder", nextFolderId, parentId, 201)
    /\ UNCHANGED <<files, store, nextFileId, dup, userVars, calls>>

\* DELETE /folders/:id
DeleteFolder(u, id) ==
    /\ Idle
    /\ IF ~FolderExists(id)
       THEN /\ resp' = Response("deleteFolder", u, "folder", id, NULL, 404)
            /\ UNCHANGED <<folders, files>>
       ELSE IF folders[id].userId # u
       THEN /\ resp' = Response("deleteFolder", u, "folder", id, NULL, 403)
            /\ UNCHANGED <<folders, files>>
       ELSE FolderDelete("deleteFolder", u, id)
    /\ UNCHANGED <<store, nextFolderId, nextFileId, dup, userVars, calls>>

\* DELETE /folders/subfolder/:id
DeleteSubfolder(u, id) ==
    /\ Idle
    /\ IF ~FolderExists(id)
       THEN /\ resp' = Response("deleteSubfolder", u, "folder", id, NULL, 404)
            /\ UNCHANGED <<folders, files>>
       ELSE IF folders[id].parentId = NULL
       THEN /\ resp' = Response("deleteSubfolder", u, "folder", id, NULL, 400)
            /\ UNCHANGED <<folders, files>>
       ELSE FolderDelete("deleteSubfolder", u, id)
    /\ UNCHANGED <<store, nextFolderId, nextFileId, dup, userVars, calls>>

\* PUT /folders/:id/move, answering as handler op
FolderMove(op, u, id, parentId) ==
    IF ~FolderExists(id)
    THEN /\ resp' = Response(op, u, "folder", id, parentId, 404)
         /\ UNCHANGED folders
    ELSE IF folders[id].userId # u
    THEN /\ resp' = Response(op, u, "folder", id, parentId, 403)
         /\ UNCHANGED folders
    ELSE IF parentId # NULL /\ ~FolderExists(parentId)
    THEN /\ resp' = Response(op, u, "folder", id, parentId, 404)
         /\ UNCHANGED folders
    ELSE IF parentId # NULL /\ folders[parentId].userId # u
    THEN /\ resp' = Response(op, u, "folder", id, parentId, 403)
         /\ UNCHANGED folders
    ELSE IF parentId # NULL /\ parentId = id
    THEN /\ resp' = Response(op, u, "folder", id, parentId, 400)
         /\ UNCHANGED folders
    ELSE /\ folders' = [folders EXCEPT ![id].parentId = parentId]
         /\ resp' = Response(op, u, "folder", id, parentId, 200)

\* PUT /folders/:id/move
MoveFolder(u, id, parentId) ==
    /\ Idle
    /\ FolderMove("moveFolder", u, id, parentId)
    /\ UNCHANGED <<files, store, nextFolderId, nextFileId, dup, userVars, calls>>

\* (a lock that refuses a folder that is locked already)
LockFolderOnce(u, id) ==
    /\ Idle
    /\ IF ~FolderExists(id)
       THEN /\ resp' = Response("lockFolder", u, "folder", id, NULL, 404)
            /\ UNCHANGED folders
       ELSE IF folders[id].userId # u
       THEN /\ resp' = Response("lockFolder", u, "folder", id, NULL, 403)
            /\ UNCHANGED folders
       ELSE IF folders[id].isLocked
       THEN /\ resp' = Response("lockFolder", u, "folder", id, NULL, 409)
            /\ UNCHANGED folders
       ELSE /\ folders' = [folders EXCEPT ![id].isLocked = TRUE]
            /\ resp' = Response("lockFolder", u, "folder", id, NULL, 200)
    /\ UNCHANGED <<files, store, nextFolderId, nextFileId, dup, userVars, calls>>

\* POST /folders/lock/:id
LockFolder(u, id) ==
    /\ Idle
    /\ IF ~FolderExists(id)
       THEN /\ resp' = Response("lockFolder", u, "folder", id, NULL, 404)
            /\ UNCHANGED folders
       ELSE IF folders[id].userId # u
       THEN /\ resp' = Response("lockFolder", u, "folder", id, NULL, 403)
            /\ UNCHANGED folders
       ELSE /\ folders' = [folders EXCEPT ![id].isLocked = TRUE]
            /\ resp' = Response("lockFolder", u, "folder", id, NULL, 200)
    /\ UNCHANGED <<files, store, nextFolderId, nextFileId, dup, userVars, calls>>

\* names sent to rename a folder: empty, and one with a trailing blank
RenameNames == {<<>>, <<"Docs", " ">>}

\* PUT /folders/:id/rename
RenameFolder(u, id, name) ==
    /\ Idle
    /\ IF name = <<>> \/ Trim(name) = <<>>
       THEN /\ resp' = Response("renameFolder", u, "folder", id, NULL, 400)
            /\ UNCHANGED folders
       ELSE IF ~FolderExists(id)
       THEN /\ resp' = Response("renameFolder", u, "folder", id, NULL, 404)
            /\ UNCHANGED folders
       ELSE IF folders[id].userId # u
       THEN /\ resp' = Response("renameFolder", u, "folder", id, NULL, 403)
            /\ UNCHANGED folders
       ELSE /\ folders' = [folders EXCEPT ![id].name = Trim(name)]
            /\ resp' = Response("renameFolder", u, "folder", id, NULL, 200)
    /\ UNCHANGED <<files, store, nextFolderId, nextFileId, dup, userVars, calls>>

\* (a mark that a locked folder refuses)
ToggleImportantUnlocked(u, id) ==
    /\ Idle
    /\ IF ~FolderExists(id)
       THEN /\ resp' = Response("toggleImportant", u, "folder", id, NULL, 404)
            /\ UNCHANGED folders
       ELSE IF folders[id].userId # u \/ folders[id].isLocked
       THEN /\ resp' = Response("toggleImportant", u, "folder", id, NULL, 403)
            /\ UNCHANGED folders
       ELSE /\ folders' = [folders EXCEPT ![id].isImportant = ~folders[id].isImportant]
            /\ resp' = Response("toggleImportant", u, "folder", id, NULL, 200)
    /\ UNCHANGED <<files, store, nextFolderId, nextFileId, dup, userVars, calls>>

\* POST /folders/important/:id
ToggleImportant(u, id) ==
    /\ Idle
    /\ IF ~FolderExists(id)
       THEN /\ resp' = Response("toggleImportant", u, "folder", id, NULL, 404)
            /\ UNCHANGED folders
       ELSE IF folders[id].userId # u
       THEN /\ resp' = Response("toggleImportant", u, "folder", id, NULL, 403)
            /\ UNCHANGED folders
       ELSE /\ folders' = [folders EXCEPT ![id].isImportant = ~folders[id].isImportant]
            /\ resp' = Response("toggleImportant", u, "folder", id, NULL, 200)
    /\ UNCHANGED <<files, store, nextFolderId, nextFileId, dup, userVars, calls>>

\* POST /users/set-lock-password
SetLockPassword(u, password) ==
    /\ Idle
    /\ IF password = NoPassword \/ Trim(password) = <<>>
       THEN /\ resp' = Response("setLockPassword", u, "user", u, NULL, 400)
            /\ UNCHANGED lockPasswords
       ELSE /\ lockPasswords' = [lockPasswords EXCEPT ![u] = Hash(Trim(password))]
            /\ resp' = Response("setLockPassword", u, "user", u, NULL, 200)
    /\ UNCHANGED <<folders, files, store, nextFolderId, nextFileId, dup,
                   categories, nextCategoryId, calls>>

\* (a test that takes every folder for a locked one)
NotLockedNever(id) == FALSE

\* if (!folder.isLocked)
NotLocked(id) == ~folders[id].isLocked

\* (an unlock that clears the flag of a locked folder of the caller before
\* it verifies the password)
UnlockFolderEager(u, id, password, skipPasswordCheck) ==
    /\ Idle
    /\ IF ~FolderExists(id)
       THEN /\ resp' = Response("unlockFolder", u, "folder", id, NULL, 404)
            /\ UNCHANGED folders
       ELSE IF folders[id].userId # u
       THEN /\ resp' = Response("unlockFolder", u, "folder", id, NULL, 403)
            /\ UNCHANGED folders
       ELSE IF NotLocked(id)
       THEN /\ resp' = Response("unlockFolder", u, "folder", id, NULL, 400)
            /\ UNCHANGED folders
       ELSE /\ folders' = [folders EXCEPT ![id].isLocked = FALSE]
            /\ resp' = Response("unlockFolder", u, "folder", id, NULL,
                                IF skipPasswordCheck THEN 200
                                ELSE IF password = NoPassword \/ lockPasswords[u] = NoHash
                                THEN 400
                                ELSE IF ~Compare(password, lockPasswords[u]) THEN 401
                                ELSE 200)
    /\ UNCHANGED <<files, store, nextFolderId, nextFileId, dup, userVars, calls>>

\* POST /folders/unlock/:id; skipPasswordCheck: the flag of the body
UnlockFolder(u, id, password, skipPasswordCheck) ==
    /\ Idle
    /\ IF ~FolderExists(id)
       THEN /\ resp' = Response("unlockFolder", u, "folder", id, NULL, 404)
            /\ UNCHANGED folders
       ELSE IF folders[id].userId # u
       THEN /\ resp' = Response("unlockFolder", u, "folder", id, NULL, 403)
            /\ UNCHANGED folders
       ELSE IF NotLocked(id)
       THEN /\ resp' = Response("unlockFolder", u, "folder", id, NULL, 400)
            /\ UNCHANGED folders
       ELSE IF ~skipPasswordCheck /\ password = NoPassword
       THEN /\ resp' = Response("unlockFolder", u, "folder", id, NULL, 400)
            /\ UNCHANGED folders
       ELSE IF ~skipPasswordCheck /\ lockPasswords[u] = NoHash
       THEN /\ resp' = Response("unlockFolder", u, "folder", id, NULL, 400)
            /\ UNCHANGED folders
       ELSE IF ~skipPasswordCheck /\ ~Compare(password, lockPasswords[u])
       THEN /\ resp' = Response("unlockFolder", u, "folder", id, NULL, 401)
            /\ UNCHANGED folders
       ELSE /\ folders' = [folders EXCEPT ![id].isLocked = FALSE]
            /\ resp' = Response("unlockFolder", u, "folder", id, NULL, 200)
    /\ UNCHANGED <<files, store, nextFolderId, nextFileId, dup, userVars, calls>>

\* ---------------------------------------------------------- file handlers
NewFile(name, url, folderId, u, locked) ==
    [name |-> name, url |-> url, folderId |-> folderId, userId |-> u,
     isLocked |-> locked, categoryId |-> NULL]

\* (a check that accepts every destination)
DestinationUnchecked(u, folderId) == 0

\* the destination check shared by the handlers that place a file
\* (0 when the destination is accepted, else the status answered)
DestinationStatus(u, folderId) ==
    IF folderId = NULL THEN 0
    ELSE IF ~FolderExists(folderId) THEN 404
    ELSE IF folders[folderId].userId # u THEN 403
    ELSE 0

\* POST /files/upload; hasFile: the multipart body carried a file, which the
\* upload middleware has stored under a fresh name in the uploads directory
UploadFile(u, hasFile, name, folderId, locked) ==
    /\ Idle
    /\ IF ~hasFile
       THEN /\ resp' = Response("uploadFile", u, "file", NULL, folderId, 400)
            /\ UNCHANGED <<files, store, nextFileId>>
       ELSE IF DestinationStatus(u, folderId) # 0
       THEN /\ resp' = Response("uploadFile", u, "file", NULL, folderId,
                                DestinationStatus(u, folderId))
            /\ UNCHANGED <<files, store, nextFileId>>
       ELSE /\ nextFileId <= MaxFiles
            /\ files' = (nextFileId :> NewFile(name, nextFileId, folderId, u, locked)) @@ files
            /\ store' = store \cup {nextFileId}
            /\ nextFileId' = nextFileId + 1
            /\ resp' = Response("uploadFile", u, "file", nextFileId, folderId, 201)
    /\ UNCHANGED <<folders, nextFolderId, dup, userVars, calls>>

\* POST /files/create (legacy): a record with a placeholder url, no content
CreateFile(u, name, folderId) ==
    /\ Idle
    /\ IF name = <<>> \/ folderId = NULL
       THEN /\ resp' = Response("createFile", u, "file", NULL, folderId, 400)
            /\ UNCHANGED <<files, nextFileId>>
       ELSE IF DestinationStatus(u, folderId) # 0
       THEN /\ resp' = Response("createFile", u, "file", NULL, folderId,
                                DestinationStatus(u, folderId))
            /\ UNCHANGED <<files, nextFileId>>
       ELSE /\ nextFileId <= MaxFiles
            /\ files' = (nextFileId :> NewFile(name, Placeholder, folderId, u, FALSE)) @@ files
            /\ nextFileId' = nextFileId + 1
            /\ resp' = Response("createFile", u, "file", nextFileId, folderId, 200)
    /\ UNCHANGED <<folders, store, nextFolderId, dup, userVars, calls>>

\* PUT /files/:id/move, answering as handler op
FileMove(op, u, id, folderId) ==
    IF ~FileExists(id)
    THEN /\ resp' = Response(op, u, "file", id, folderId, 404)
         /\ UNCHANGED files
    ELSE IF files[id].userId # u
    THEN /\ resp' = Response(op, u, "file", id, folderId, 403)
         /\ UNCHANGED files
    ELSE IF DestinationStatus(u, folderId) # 0
    THEN /\ resp' = Response(op, u, "file", id, folderId, DestinationStatus(u, folderId))
         /\ UNCHANGED files
    ELSE /\ files' = [files EXCEPT ![id].folderId = folderId]
         /\ resp' = Response(op, u, "file", id, folderId, 200)

\* PUT /files/:id/move
MoveFile(u, id, folderId) ==
    /\ Idle
    /\ FileMove("moveFile", u, id, folderId)
    /\ UNCHANGED <<folders, store, nextFolderId, nextFileId, dup, userVars, calls>>

\* (a delete that gives up, answering 500 with the record kept, when the
\* content exists and cannot be unlinked)
FileDeleteStrict(op, u, id, unlinkOk) ==
    IF ~FileExists(id)
    THEN /\ resp' = Response(op, u, "file", id, NULL, 404)
         /\ UNCHANGED <<files, store>>
    ELSE IF files[id].userId # u
    THEN /\ resp' = Response(op, u, "file", id, NULL, 403)
         /\ UNCHANGED <<files, store>>
    ELSE IF files[id].url \in store /\ ~unlinkOk
    THEN /\ resp' = Response(op, u, "file", id, NULL, 500)
         /\ UNCHANGED <<files, store>>
    ELSE /\ store' = store \ {files[id].url}
         /\ files' = Restrict(files, DOMAIN files \ {id})
         /\ resp' = Removed(op, u, "file", id, 200, {}, {id})

\* DELETE /files/:id, answering as handler op;
\* unlinkOk: fs.unlinkSync succeeds (its failure is caught and logged)
FileDelete(op, u, id, unlinkOk) ==
    IF ~FileExists(id)
    THEN /\ resp' = Response(op, u, "file", id, NULL, 404)
         /\ UNCHANGED <<files, store>>
    ELSE IF files[id].userId # u
    THEN /\ resp' = Response(op, u, "file", id, NULL, 403)
         /\ UNCHANGED <<files, store>>
    ELSE /\ store' = IF files[id].url \in store /\ unlinkOk
                     THEN store \ {files[id].url} ELSE store
         /\ files' = Restrict(files, DOMAIN files \ {id})
         /\ resp' = Removed(op, u, "file", id, 200, {}, {id})

\* DELETE /files/:id
DeleteFile(u, id, unlinkOk) ==
    /\ Idle
    /\ FileDelete("deleteFile", u, id, unlinkOk)
    /\ UNCHANGED <<folders, nextFolderId, nextFileId, dup, userVars, calls>>

\* an unlock that does not test the flag: clears it and answers 200 whenever
\* the file exists and is the caller's
UnlockFileAny(u, id) ==
    /\ Idle
    /\ IF ~FileExists(id)
       THEN /\ resp' = Response("unlockFile", u, "file", id, NULL, 404)
            /\ UNCHANGED files
       ELSE IF files[id].userId # u
       THEN /\ resp' = Response("unlockFile", u, "file", id, NULL, 403)
            /\ UNCHANGED files
       ELSE /\ files' = [files EXCEPT ![id].isLocked = FALSE]
            /\ resp' = Response("unlockFile", u, "file", id, NULL, 200)
    /\ UNCHANGED <<folders, store, nextFolderId, nextFileId, dup, userVars, calls>>

\* POST /files/unlock/:id
UnlockFile(u, id) ==
    /\ Idle
    /\ IF ~FileExists(id)
       THEN /\ resp' = Response("unlockFile", u, "file", id, NULL, 404)
            /\ UNCHANGED files
       ELSE IF files[id].userId # u
       THEN /\ resp' = Response("unlockFile", u, "file", id, NULL, 403)
            /\ UNCHANGED files
       ELSE IF ~files[id].isLocked
       THEN /\ resp' = Response("unlockFile", u, "file", id, NULL, 400)
            /\ UNCHANGED files
       ELSE /\ files' = [files EXCEPT ![id].isLocked = FALSE]
            /\ resp' = Response("unlockFile", u, "file", id, NULL, 200)
    /\ UNCHANGED <<folders, store, nextFolderId, nextFileId, dup, userVars, calls>>

\* ------------------------------------------------------ category handlers
\* Category names a client sends: empty, and one with a trailing blank
CategoryNames == {<<>>, <<"Work", " ">>}

\* the Category table as deployed: one global category (userId null), which no
\* handler creates
SeededCategories == 1 :> [name |-> <<"Work">>, userId |-> NULL]

InitCategories ==
    /\ folders = <<>>
    /\ files = <<>>
    /\ store = {}
    /\ nextFolderId = 1
    /\ nextFileId = 1
    /\ dup = NoDup
    /\ resp = Response("none", NULL, "none", NULL, NULL, 200)
    /\ lockPasswords = [u \in Users |-> NoHash]
    /\ categories = SeededCategories
    /\ nextCategoryId = 2
    /\ calls = [s \in Slots |-> NoCall]

\* prisma.category.findFirst({ where: { name, userId } })
CategoriesNamed(name, u) ==
    {c \in DOMAIN categories : categories[c].name = name /\ categories[c].userId = u}

\* GET /categories/:name
GetOrCreateCategoryByName(u, name) ==
    /\ Idle
    /\ IF name = <<>> \/ Trim(name) = <<>>
       THEN /\ resp' = Response("getOrCreateCategoryByName", u, "category", NULL, NULL, 400)
            /\ UNCHANGED <<categories, nextCategoryId>>
       ELSE IF CategoriesNamed(Trim(name), u) # {}
       THEN /\ resp' = Response("getOrCreateCategoryByName", u, "category",
                                CHOOSE c \in CategoriesNamed(Trim(name), u) :
                                    \A d \in CategoriesNamed(Trim(name), u) : c <= d,
                                NULL, 200)
            /\ UNCHANGED <<categories, nextCategoryId>>
       ELSE /\ categories' = (nextCategoryId :> [name |-> Trim(name), userId |-> u])
                             @@ categories
            /\ nextCategoryId' = nextCategoryId + 1
            /\ resp' = Response("getOrCreateCategoryByName", u, "category",
                                nextCategoryId, NULL, 200)
    /\ UNCHANGED <<folders, files, store, nextFolderId, nextFileId, dup, lockPasswords,
                   calls>>

\* (a test that lets every principal use every category)
CategoryUsableByAll(c, u) == TRUE

\* category.userId === null || category.userId === userId
CategoryUsable(c, u) == categories[c].userId = NULL \/ categories[c].userId = u

\* POST /files/assign-category; fileId, categoryId: the numbers of the body,
\* NULL when missing or 0
AssignCategoryToFile(u, fileId, categoryId) ==
    /\ Idle
    /\ IF fileId = NULL \/ categoryId = NULL
       THEN /\ resp' = Response("assignCategoryToFile", u, "file", fileId, categoryId, 400)
            /\ UNCHANGED files
       ELSE IF ~FileExists(fileId)
       THEN /\ resp' = Response("assignCategoryToFile", u, "file", fileId, categoryId, 404)
            /\ UNCHANGED files
       ELSE IF files[fileId].userId # u
       THEN /\ resp' = Response("assignCategoryToFile", u, "file", fileId, categoryId, 403)
            /\ UNCHANGED files
       ELSE IF categoryId \notin DOMAIN categories
       THEN /\ resp' = Response("assignCategoryToFile", u, "file", fileId, categoryId, 404)
            /\ UNCHANGED files
       ELSE IF ~CategoryUsable(categoryId, u)
       THEN /\ resp' = Response("assignCategoryToFile", u, "file", fileId, categoryId, 403)
            /\ UNCHANGED files
       ELSE /\ files' = [files EXCEPT ![fileId].categoryId = categoryId]
            /\ resp' = Reveal("assignCategoryToFile", u, "file", fileId, categoryId, 200,
                              {}, {fileId}, {})
    /\ UNCHANGED <<folders, store, nextFolderId, nextFileId, dup, userVars, calls>>

\* ------------------------------------------- handlers, statement by statement
\* toggleImportant up to its first await: prisma.folder.findUnique and the
\* checks on the row read
ToggleImportantFind(s, u, id) ==
    /\ calls[s].pc = "none"
    /\ IF ~FolderExists(id)
       THEN /\ resp' = Response("toggleImportant", u, "folder", id, NULL, 404)
            /\ UNCHANGED calls
       ELSE IF folders[id].userId # u
       THEN /\ resp' = Response("toggleImportant", u, "folder", id, NULL, 403)
            /\ UNCHANGED calls
       ELSE /\ calls' = [calls EXCEPT ![s] = [pc |-> "toggleImportant", user |-> u,
                                              id |-> id, name |-> <<>>,
                                              flag |-> folders[id].isImportant]]
            /\ UNCHANGED resp
    /\ UNCHANGED <<folders, files, store, nextFolderId, nextFileId, dup, lockPasswords,
                   categories, nextCategoryId>>

\* toggleImportant from prisma.folder.update to the answer: the value written
\* is the negation of the value the first statement read; the update of a row
\* deleted in between throws and the catch answers 500
ToggleImportantUpdate(s) ==
    /\ calls[s].pc = "toggleImportant"
    /\ LET c == calls[s]
       IN IF ~FolderExists(c.id)
          THEN /\ resp' = Response("toggleImportant", c.user, "folder", c.id, NULL, 500)
               /\ UNCHANGED folders
          ELSE /\ folders' = [folders EXCEPT ![c.id].isImportant = ~c.flag]
               /\ resp' = Response("toggleImportant", c.user, "folder", c.id, NULL, 200)
    /\ calls' = [calls EXCEPT ![s] = NoCall]
    /\ UNCHANGED <<files, store, nextFolderId, nextFileId, dup, lockPasswords,
                   categories, nextCategoryId>>

\* getOrCreateCategoryByName up to the await of prisma.category.findFirst,
\* and its answer when a category was found
CategoryFind(s, u, name) ==
    /\ calls[s].pc = "none"
    /\ IF name = <<>> \/ Trim(name) = <<>>
       THEN /\ resp' = Response("getOrCreateCategoryByName", u, "category", NULL, NULL, 400)
            /\ UNCHANGED calls
       ELSE IF CategoriesNamed(Trim(name), u) # {}
       THEN /\ resp' = Response("getOrCreateCategoryByName", u, "category",
                                CHOOSE c \in CategoriesNamed(Trim(name), u) :
                                    \A d \in CategoriesNamed(Trim(name), u) : c <= d,
                                NULL, 200)
            /\ UNCHANGED calls
       ELSE /\ calls' = [calls EXCEPT ![s] = [pc |-> "getOrCreateCategoryByName",
                                              user |-> u, id |-> NULL,
                                              name |-> Trim(name), flag |-> FALSE]]
            /\ UNCHANGED resp
    /\ UNCHANGED <<folders, files, store, nextFolderId, nextFileId, dup, lockPasswords,
                   categories, nextCategoryId>>

\* getOrCreateCategoryByName from prisma.category.create to the answer
CategoryCreate(s) ==
    /\ calls[s].pc = "getOrCreateCategoryByName"
    /\ LET c == calls[s]
       IN /\ categories' = (nextCategoryId :> [name |-> c.name, userId |-> c.user])
                            @@ categories
          /\ resp' = Response("getOrCreateCategoryByName", c.user, "category",
                              nextCategoryId, NULL, 200)
    /\ nextCategoryId' = nextCategoryId + 1
    /\ calls' = [calls EXCEPT ![s] = NoCall]
    /\ UNCHANGED <<folders, files, store, nextFolderId, nextFileId, dup, lockPasswords>>

\* ------------------------------------------------- unified item handlers
ItemTypes == {"file", "folder"}

\* (a unified move that does not refuse the move of a folder into itself)
MoveItemAnywhere(u, id, type, target) ==
    /\ Idle
    /\ IF type \notin ItemTypes
       THEN /\ resp' = Response("moveItem", u, type, id, target, 400)
            /\ UNCHANGED <<folders, files>>
       ELSE IF type = "folder"
       THEN /\ IF ~FolderExists(id)
               THEN /\ resp' = Response("moveItem", u, "folder", id, target, 404)
                    /\ UNCHANGED folders
               ELSE IF folders[id].userId # u
               THEN /\ resp' = Response("moveItem", u, "folder", id, target, 403)
                    /\ UNCHANGED folders
               ELSE IF DestinationStatus(u, target) # 0
               THEN /\ resp' = Response("moveItem", u, "folder", id, target,
                                        DestinationStatus(u, target))
                    /\ UNCHANGED folders
               ELSE /\ folders' = [folders EXCEPT ![id].parentId = target]
                    /\ resp' = Response("moveItem", u, "folder", id, target, 200)
            /\ UNCHANGED files
       ELSE /\ FileMove("moveItem", u, id, target)
            /\ UNCHANGED folders
    /\ UNCHANGED <<store, nextFolderId, nextFileId, dup, userVars, calls>>

\* PUT /items/:id/move
MoveItem(u, id, type, target) ==
    /\ Idle
    /\ IF type \notin ItemTypes
       THEN /\ resp' = Response("moveItem", u, type, id, target, 400)
            /\ UNCHANGED <<folders, files>>
       ELSE IF type = "folder"
       THEN /\ IF ~FolderExists(id)
               THEN /\ resp' = Response("moveItem", u, "folder", id, target, 404)
                    /\ UNCHANGED folders
               ELSE IF folders[id].userId # u
               THEN /\ resp' = Response("moveItem", u, "folder", id, target, 403)
                    /\ UNCHANGED folders
               ELSE IF target # NULL /\ ~FolderExists(target)
               THEN /\ resp' = Response("moveItem", u, "folder", id, target, 404)
                    /\ UNCHANGED folders
               ELSE IF target # NULL /\ folders[target].userId # u
               THEN /\ resp' = Response("moveItem", u, "folder", id, target, 403)
                    /\ UNCHANGED folders
               ELSE IF target # NULL /\ target = id
               THEN /\ resp' = Response("moveItem", u, "folder", id, target, 400)
                    /\ UNCHANGED folders
               ELSE /\ folders' = [folders EXCEPT ![id].parentId = target]
                    /\ resp' = Response("moveItem", u, "folder", id, target, 200)
            /\ UNCHANGED files
       ELSE /\ IF ~FileExists(id)
               THEN /\ resp' = Response("moveItem", u, "file", id, target, 404)
                    /\ UNCHANGED files
               ELSE IF files[id].userId # u
               THEN /\ resp' = Response("moveItem", u, "file", id, target, 403)
                    /\ UNCHANGED files
               ELSE IF target # NULL /\ ~FolderExists(target)
               THEN /\ resp' = Response("moveItem", u, "file", id, target, 404)
                    /\ UNCHANGED files
               ELSE IF target # NULL /\ folders[target].userId # u
               THEN /\ resp' = Response("moveItem", u, "file", id, target, 403)
                    /\ UNCHANGED files
               ELSE /\ files' = [files EXCEPT ![id].folderId = target]
                    /\ resp' = Response("moveItem", u, "file", id, target, 200)
            /\ UNCHANGED folders
    /\ UNCHANGED <<store, nextFolderId, nextFileId, dup, userVars, calls>>

\* DELETE /items/:id?type=
DeleteItem(u, id, type, unlinkOk) ==
    /\ Idle
    /\ IF type \notin ItemTypes
       THEN /\ resp' = Response("deleteItem", u, type, id, NULL, 400)
            /\ UNCHANGED <<folders, files, store>>
       ELSE IF type = "folder"
       THEN /\ IF ~FolderExists(id)
               THEN /\ resp' = Response("deleteItem", u, "folder", id, NULL, 404)
                    /\ UNCHANGED <<folders, files>>
               ELSE IF folders[id].userId # u
               THEN /\ resp' = Response("deleteItem", u, "folder", id, NULL, 403)
                    /\ UNCHANGED <<folders, files>>
               ELSE FolderDelete("deleteItem", u, id)
            /\ UNCHANGED store
       ELSE /\ IF ~FileExists(id)
               THEN /\ resp' = Response("deleteItem", u, "file", id, NULL, 404)
                    /\ UNCHANGED <<files, store>>
               ELSE IF files[id].userId # u
               THEN /\ resp' = Response("deleteItem", u, "file", id, NULL, 403)
                    /\ UNCHANGED <<files, store>>
               ELSE /\ store' = IF files[id].url \in store /\ unlinkOk
                                THEN store \ {files[id].url} ELSE store
                    /\ files' = Restrict(files, DOMAIN files \ {id})
                    /\ resp' = Removed("deleteItem", u, "file", id, 200, {}, {id})
            /\ UNCHANGED folders
    /\ UNCHANGED <<nextFolderId, nextFileId, dup, userVars, calls>>

\* ------------------------------------------------------------ duplication
\* `${folder.name} (Copy)`
CopyFolderName(name) == name \o <<" (Copy)">>

\* path.extname: the extension of a name, "" when it has none
Extname(name) ==
    IF Len(name) > 1 /\ name[Len(name)] \in Extensions THEN name[Len(name)] ELSE ""

\* path.basename(name, ext)
Basename(name, ext) ==
    IF ext # "" THEN SubSeq(name, 1, Len(name) - 1) ELSE name

\* `${fileNameWithoutExt} (Copy)${fileExtension}`
CopyFileName(name) ==
    LET ext == Extname(name)
    IN Basename(name, ext) \o <<" (Copy)">> \o (IF ext = "" THEN <<>> ELSE <<ext>>)

\* rows of a findMany in ascending id order
RECURSIVE SortedSeq(_)
SortedSeq(S) ==
    IF S = {} THEN <<>>
    ELSE LET m == CHOOSE x \in S : \A y \in S : x <= y
         IN <<m>> \o SortedSeq(S \ {m})

\* prisma.file.findMany({ where: { folderId, userId } })
FilesIn(folderId, u) ==
    {f \in DOMAIN files : files[f].folderId = folderId /\ files[f].userId = u}

\* prisma.folder.findMany({ where: { parentId, userId } })
SubfoldersOf(parentId, u) ==
    {g \in DOMAIN folders : folders[g].parentId = parentId /\ folders[g].userId = u}

\* one activation of duplicateFolderContents(src, tgt, userId): it first
\* walks the files it found in src, then lists the subfolders and walks them
Frame(src, tgt, u) ==
    [src |-> src, tgt |-> tgt, phase |-> "files", todo |-> SortedSeq(FilesIn(src, u))]

Top == dup.stack[Len(dup.stack)]
ReplaceTop(fr) == [dup.stack EXCEPT ![Len(dup.stack)] = fr]
Pop == SubSeq(dup.stack, 1, Len(dup.stack) - 1)

\* POST /items/:id/duplicate with type=folder, up to the first call of
\* duplicateFolderContents; the request stays unanswered (status 0) until
\* DupReturn or DupFail sends the response
DuplicateFolder(u, id, target) ==
    /\ Idle
    /\ IF ~FolderExists(id)
       THEN /\ resp' = Response("duplicateItem", u, "folder", id, target, 404)
            /\ UNCHANGED <<folders, nextFolderId, dup>>
       ELSE IF folders[id].userId # u
       THEN /\ resp' = Response("duplicateItem", u, "folder", id, target, 403)
            /\ UNCHANGED <<folders, nextFolderId, dup>>
       ELSE IF DestinationStatus(u, target) # 0
       THEN /\ resp' = Response("duplicateItem", u, "folder", id, target,
                                DestinationStatus(u, target))
            /\ UNCHANGED <<folders, nextFolderId, dup>>
       ELSE /\ nextFolderId <= MaxFolders
            /\ folders' = (nextFolderId :>
                              NewFolder(CopyFolderName(folders[id].name), u, target))
                          @@ folders
            /\ nextFolderId' = nextFolderId + 1
            /\ dup' = [active |-> TRUE, user |-> u, src |-> id, target |-> target,
                       root |-> nextFolderId,
                       stack |-> <<Frame(id, nextFolderId, u)>>]
            /\ resp' = Response("duplicateItem", u, "folder", id, target, 0)
    /\ UNCHANGED <<files, store, nextFileId, userVars, calls>>

\* the content copy and the record of one file (fs.copyFileSync,
\* prisma.file.create); the copy gets a fresh location in the content store
CopyFile(src, folderId, u) ==
    /\ nextFileId <= MaxFiles
    /\ store' = IF files[src].url \in store THEN store \cup {nextFileId} ELSE store
    /\ files' = (nextFileId :>
                    NewFile(CopyFileName(files[src].name), nextFileId, folderId, u, FALSE))
                @@ files
    /\ nextFileId' = nextFileId + 1

\* duplicateFolderContents: one iteration of the loop over the files
DupFile ==
    /\ dup.active
    /\ Top.phase = "files" /\ Top.todo # <<>>
    /\ CopyFile(Head(Top.todo), Top.tgt, dup.user)
    /\ dup' = [dup EXCEPT !.stack = ReplaceTop([Top EXCEPT !.todo = Tail(Top.todo)])]
    /\ UNCHANGED <<folders, nextFolderId, resp, userVars, calls>>

\* duplicateFolderContents: the subfolders are listed after the files loop
DupListSubfolders ==
    /\ dup.active
    /\ Top.phase = "files" /\ Top.todo = <<>>
    /\ dup' = [dup EXCEPT !.stack =
                  ReplaceTop([Top EXCEPT !.phase = "subfolders",
                                         !.todo = SortedSeq(SubfoldersOf(Top.src, dup.user))])]
    /\ UNCHANGED <<folders, files, store, nextFolderId, nextFileId, resp, userVars, calls>>

\* duplicateFolderContents: one iteration of the loop over the subfolders,
\* up to the recursive call
DupSubfolder ==
    /\ dup.active
    /\ Top.phase = "subfolders" /\ Top.todo # <<>>
    /\ nextFolderId <= MaxFolders
    /\ LET g == Head(Top.todo)
       IN /\ folders' = (nextFolderId :>
                            NewFolder(CopyFolderName(folders[g].name), dup.user, Top.tgt))
                        @@ folders
          /\ dup' = [dup EXCEPT !.stack =
                        Append(ReplaceTop([Top EXCEPT !.todo = Tail(Top.todo)]),
                               Frame(g, nextFolderId, dup.user))]
    /\ nextFolderId' = nextFolderId + 1
    /\ UNCHANGED <<files, store, nextFileId, resp, userVars, calls>>

\* duplicateFolderContents returns; the outermost return sends the response
DupReturn ==
    /\ dup.active
    /\ Top.phase = "subfolders" /\ Top.todo = <<>>
    /\ IF Len(dup.stack) = 1
       THEN /\ dup' = NoDup
            /\ resp' = Reveal("duplicateItem", dup.user, "folder", dup.src, dup.target,
                              200, {dup.root}, {}, {})
       ELSE /\ dup' = [dup EXCEPT !.stack = Pop]
            /\ UNCHANGED resp
    /\ UNCHANGED <<folders, files, store, nextFolderId, nextFileId, userVars, calls>>

\* a statement of the duplication throws (persistence or content store
\* failure): the catch answers 500 and what was created so far stays
DupFail ==
    /\ dup.active
    /\ dup' = NoDup
    /\ resp' = Response("duplicateItem", dup.user, "folder", dup.src, dup.target, 500)
    /\ UNCHANGED <<folders, files, store, nextFolderId, nextFileId, userVars, calls>>

\* POST /items/:id/duplicate with type=file, and the type validation
DuplicateItem(u, id, type, target) ==
    /\ Idle
    /\ type # "folder"
    /\ IF type \notin ItemTypes
       THEN /\ resp' = Response("duplicateItem", u, type, id, target, 400)
            /\ UNCHANGED <<files, store, nextFileId>>
       ELSE IF ~FileExists(id)
       THEN /\ resp' = Response("duplicateItem", u, "file", id, target, 404)
            /\ UNCHANGED <<files, store, nextFileId>>
       ELSE IF files[id].userId # u
       THEN /\ resp' = Response("duplicateItem", u, "file", id, target, 403)
            /\ UNCHANGED <<files, store, nextFileId>>
       ELSE IF DestinationStatus(u, target) # 0
       THEN /\ resp' = Response("duplicateItem", u, "file", id, target,
                                DestinationStatus(u, target))
            /\ UNCHANGED <<files, store, nextFileId>>
       ELSE /\ CopyFile(id, target, u)
            /\ resp' = Reveal("duplicateItem", u, "file", id, target, 200,
                              {}, {nextFileId}, {})
    /\ UNCHANGED <<folders, nextFolderId, dup, userVars, calls>>

\* ----------------------------------------------------------- read handlers
\* getParentChain(folderId, userId): the ancestors from the root-most one down
\* to the parent. The loop follows parentId while the row read exists and is
\* the caller's; once it has read more rows than the table holds it is on a
\* cycle and never leaves it (done = FALSE).
\* (a walk that appends each ancestor it reads: immediate parent first)
RECURSIVE ParentChainLoopAppend(_, _, _)
ParentChainLoopAppend(u, currentParentId, chain) ==
    IF currentParentId = NULL THEN [chain |-> chain, done |-> TRUE]
    ELSE IF ~FolderExists(currentParentId) \/ folders[currentParentId].userId # u
    THEN [chain |-> chain, done |-> TRUE]
    ELSE IF Len(chain) >= Cardinality(DOMAIN folders)
    THEN [chain |-> chain, done |-> FALSE]
    ELSE ParentChainLoopAppend(u, folders[currentParentId].parentId,
                               chain \o <<currentParentId>>)

RECURSIVE ParentChainLoop(_, _, _)
ParentChainLoop(u, currentParentId, chain) ==
    IF currentParentId = NULL THEN [chain |-> chain, done |-> TRUE]
    ELSE IF ~FolderExists(currentParentId) \/ folders[currentParentId].userId # u
    THEN [chain |-> chain, done |-> TRUE]
    ELSE IF Len(chain) >= Cardinality(DOMAIN folders)
    THEN [chain |-> chain, done |-> FALSE]
    ELSE ParentChainLoop(u, folders[currentParentId].parentId,
                         <<currentParentId>> \o chain)

GetParentChain(folderId, u) ==
    IF ~FolderExists(folderId) \/ folders[folderId].userId # u
    THEN [chain |-> <<>>, done |-> TRUE]
    ELSE ParentChainLoop(u, folders[folderId].parentId, <<>>)

Range(seq) == {seq[i] : i \in DOMAIN seq}

\* (a listing that keeps the locked subfolders)
AllSubfolders(id) == {g \in DOMAIN folders : folders[g].parentId = id}

\* folder.subfolders.filter(subfolder => !subfolder.isLocked)
UnlockedSubfolders(id) ==
    {g \in DOMAIN folders : folders[g].parentId = id /\ ~folders[g].isLocked}

\* GET /folders/:id; password: the password of the query or body. The
\* lockPassword column of a folder is written by no handler: it is NULL.
\* A request whose getParentChain never returns is never answered (status 0).
GetFolderById(u, id, password) ==
    /\ Idle
    /\ IF ~FolderExists(id)
       THEN resp' = Response("getFolderById", u, "folder", id, NULL, 404)
       ELSE IF folders[id].userId # u
       THEN resp' = Response("getFolderById", u, "folder", id, NULL, 403)
       ELSE IF folders[id].isLocked /\ password = NoPassword
       THEN resp' = Response("getFolderById", u, "folder", id, NULL, 403)
       ELSE IF folders[id].isLocked /\ folders[id].lockPassword = NULL
       THEN resp' = Response("getFolderById", u, "folder", id, NULL, 400)
       ELSE IF folders[id].isLocked /\ ~Compare(password, folders[id].lockPassword)
       THEN resp' = Response("getFolderById", u, "folder", id, NULL, 401)
       ELSE IF ~GetParentChain(id, u).done
       THEN resp' = Response("getFolderById", u, "folder", id, NULL, 0)
       ELSE resp' = [Reveal("getFolderById", u, "folder", id, NULL, 200,
                            {id}
                              \cup UnlockedSubfolders(id)
                              \cup ({folders[id].parentId} \ {NULL})
                              \cup Range(GetParentChain(id, u).chain),
                            {f \in DOMAIN files : files[f].folderId = id},
                            {})
                     EXCEPT !.subfolders = UnlockedSubfolders(id)]
    /\ UNCHANGED <<folders, files, store, nextFolderId, nextFileId, dup, userVars, calls>>

\* GET /folders?parentId=
GetAllFolders(u, parentId) ==
    /\ Idle
    /\ resp' = Reveal("getAllFolders", u, "folder", parentId, NULL, 200,
                      SubfoldersOf(parentId, u), {}, {})
    /\ UNCHANGED <<folders, files, store, nextFolderId, nextFileId, dup, userVars, calls>>

\* GET /files/folder/:folderId ("root" is NULL)
GetFilesInFolder(u, folderId) ==
    /\ Idle
    /\ resp' = Reveal("getFilesInFolder", u, "folder", folderId, NULL, 200,
                      {}, FilesIn(folderId, u), {})
    /\ UNCHANGED <<folders, files, store, nextFolderId, nextFileId, dup, userVars, calls>>

\* GET /files/:id
GetSingleFile(u, id) ==
    /\ Idle
    /\ IF ~FileExists(id)
       THEN resp' = Response("getSingleFile", u, "file", id, NULL, 404)
       ELSE resp' = Reveal("getSingleFile", u, "file", id, NULL, 200, {}, {id}, {})
    /\ UNCHANGED <<folders, files, store, nextFolderId, nextFileId, dup, userVars, calls>>

\* GET /files/:id/download
ServeFile(u, id) ==
    /\ Idle
    /\ IF ~FileExists(id)
       THEN resp' = Response("serveFile", u, "file", id, NULL, 404)
       ELSE IF files[id].userId # u
       THEN resp' = Response("serveFile", u, "file", id, NULL, 403)
       ELSE IF files[id].url \notin store
       THEN resp' = Response("serveFile", u, "file", id, NULL, 404)
       ELSE resp' = Reveal("serveFile", u, "file", id, NULL, 200,
                           {}, {id}, {files[id].url})
    /\ UNCHANGED <<folders, files, store, nextFolderId, nextFileId, dup, userVars, calls>>

\* GET /items/:id/share?type=
ShareItem(u, id, type) ==
    /\ Idle
    /\ IF type \notin ItemTypes
       THEN resp' = Response("shareItem", u, type, id, NULL, 400)
       ELSE IF (type = "folder" /\ ~FolderExists(id)) \/ (type = "file" /\ ~FileExists(id))
       THEN resp' = Response("shareItem", u, type, id, NULL, 404)
       ELSE IF (IF type = "folder" THEN folders[id].userId ELSE files[id].userId) # u
       THEN resp' = Response("shareItem", u, type, id, NULL, 403)
       ELSE resp' = Reveal("shareItem", u, type, id, NULL, 200,
                           IF type = "folder" THEN {id} ELSE {},
                           IF type = "file" THEN {id} ELSE {}, {})
    /\ UNCHANGED <<folders, files, store, nextFolderId, nextFileId, dup, userVars, calls>>

\* addFolderToArchive: the folders it visits from one requested folder (each
\* subfolder is read again by id, whoever owns it) ...
ArchiveFolders(ids) == UNION {CascadeFolders(folders, id) : id \in ids}

\* ... and the files it adds: those whose content exists
ArchiveFiles(ids) ==
    {f \in DOMAIN files : files[f].folderId \in ArchiveFolders(ids) /\ files[f].url \in store}

\* the recursion of addFolderToArchive returns only if no visited folder is
\* below itself
Children(g) == {h \in DOMAIN folders : folders[h].parentId = g}
Below(g) == IF Children(g) = {} THEN {} ELSE CascadeClosure(folders, Children(g))
ArchiveEnds(ids) == \A g \in ArchiveFolders(ids) : g \notin Below(g)

\* POST /folders/share; ids: the folderIds of the body. The directories of the
\* archive are the folders on the path of an added file.
ShareFolders(u, ids) ==
    /\ Idle
    /\ IF ids = {}
       THEN resp' = Response("shareFolders", u, "folder", NULL, NULL, 400)
       ELSE IF ids \cap Owned(u) = {}
       THEN resp' = Response("shareFolders", u, "folder", NULL, NULL, 404)
       ELSE LET top == ids \cap Owned(u)
                fi == ArchiveFiles(top)
            IN resp' = Reveal("shareFolders", u, "folder", NULL, NULL,
                              IF ArchiveEnds(top) THEN 200 ELSE 0,
                              {g \in ArchiveFolders(top) :
                                  \E f \in fi : files[f].folderId \in CascadeFolders(folders, g)},
                              fi, {files[f].url : f \in fi})
    /\ UNCHANGED <<folders, files, store, nextFolderId, nextFileId, dup, userVars, calls>>

Targets == FolderIds \cup {NULL}
RequestTypes == ItemTypes \cup {"link"}

\* --------------------------------------------------------- specifications
\* Requests are served one at a time: a handler runs to its answer before the
\* next request is taken (Idle), the steps of a folder duplication included.

\* every request on the folder tree, accepted or refused
NextTree ==
    \/ \E u \in Users, n \in FolderNames, p \in Targets : CreateFolder(u, n, p)
    \/ \E u \in Users, id \in FolderIds : DeleteFolder(u, id)
    \/ \E u \in Users, id \in FolderIds : DeleteSubfolder(u, id)
    \/ \E u \in Users, id \in FolderIds, p \in Targets : MoveFolder(u, id, p)
    \/ \E u \in Users, id \in FolderIds, t \in {"folder", "link"}, d \in Targets :
          MoveItem(u, id, t, d)
    \/ \E u \in Users, id \in FolderIds, d \in Targets : DuplicateFolder(u, id, d)
    \/ DupListSubfolders
    \/ DupSubfolder
    \/ DupReturn
    \/ DupFail

SpecTree == Init /\ [][NextTree]_vars

\* The other specifications send the requests that build the tree only in
\* the forms the handlers accept: a refused request changes no row, so the
\* same rows are reached.
BuildFolder(u) == \E p \in DOMAIN folders \cup {NULL} : CreateFolder(u, <<"Docs">>, p)
BuildFile(u, n) == \E d \in Owned(u) \cup {NULL} : UploadFile(u, TRUE, n, d, FALSE)

\* filling and deleting folders, within MaxCascadeFolders folders and
\* MaxCascadeFiles files
MaxCascadeFolders == 2
MaxCascadeFiles == 2

NextDelete ==
    \/ \E u \in Users : nextFolderId <= MaxCascadeFolders /\ BuildFolder(u)
    \/ \E u \in Users : nextFileId <= MaxCascadeFiles /\ BuildFile(u, <<"a", ".txt">>)
    \/ \E u \in Users : \E id \in Owned(u) : \E p \in (Owned(u) \ {id}) \cup {NULL} :
          MoveFolder(u, id, p)
    \/ \E u \in Users : \E id \in Owned(u) : DeleteFolder(u, id)
    \/ \E u \in Users : \E id \in Owned(u) : DeleteItem(u, id, "folder", TRUE)

SpecDelete == Init /\ [][NextDelete]_vars

\* building a tree and reading it
NextRead ==
    \/ \E u \in Users : BuildFolder(u)
    \/ \E u \in Users : BuildFile(u, <<"notes">>)
    \/ \E u \in Users, id \in FolderIds : GetFolderById(u, id, NoPassword)
    \/ \E u \in Users, p \in Targets : GetAllFolders(u, p)
    \/ \E u \in Users, d \in Targets : GetFilesInFolder(u, d)
    \/ \E u \in Users, id \in FileIds : GetSingleFile(u, id)
    \/ \E u \in Users, id \in FileIds : ServeFile(u, id)
    \/ \E u \in Users, id \in FolderIds \cup FileIds, t \in RequestTypes : ShareItem(u, id, t)
    \/ \E u \in Users, ids \in SUBSET FolderIds : ShareFolders(u, ids)

SpecRead == Init /\ [][NextRead]_vars

\* building a tree and duplicating folders and files of it
NextDup ==
    \/ \E u \in Users : BuildFolder(u)
    \/ \E u \in Users, n \in FileNames : BuildFile(u, n)
    \/ \E u \in Users : \E id \in Owned(u), d \in Owned(u) \cup {NULL} :
          DuplicateFolder(u, id, d)
    \/ \E u \in Users : \E id \in {f \in DOMAIN files : files[f].userId = u},
                           d \in Owned(u) \cup {NULL} :
          DuplicateItem(u, id, "file", d)
    \/ DupFile
    \/ DupListSubfolders
    \/ DupSubfolder
    \/ DupReturn
    \/ DupFail

SpecDup == Init /\ [][NextDup]_vars

\* locking, unlocking and marking folders, within MaxLockFolders folders
\* (created at the root: no handler of these reads parentId)
MaxLockFolders == 2

NextLock ==
    \/ \E u \in Users : nextFolderId <= MaxLockFolders /\ CreateFolder(u, <<"Docs">>, NULL)
    \/ \E u \in Users, pw \in Passwords : SetLockPassword(u, pw)
    \/ \E u \in Users, id \in 1..MaxLockFolders : LockFolder(u, id)
    \/ \E u \in Users, id \in 1..MaxLockFolders, pw \in Passwords, skip \in BOOLEAN :
          UnlockFolder(u, id, pw, skip)
    \/ \E u \in Users, id \in 1..MaxLockFolders : ToggleImportant(u, id)

SpecLock == Init /\ [][NextLock]_vars

\* locking folders that have contents and opening them with a password
MaxLockFiles == 1

NextLockRead ==
    \/ \E u \in Users : nextFolderId <= MaxLockFolders /\ BuildFolder(u)
    \/ \E u \in Users : nextFileId <= MaxLockFiles /\ BuildFile(u, <<"notes">>)
    \/ \E u \in Users, pw \in Passwords : SetLockPassword(u, pw)
    \/ \E u \in Users, id \in 1..MaxLockFolders : LockFolder(u, id)
    \/ \E u \in Users, id \in 1..MaxLockFolders, pw \in Passwords : GetFolderById(u, id, pw)

SpecLockRead == Init /\ [][NextLockRead]_vars

\* every handler that writes Folder rows, called by one principal on its own
\* folders, within MaxLockFolders folders: folders are moved to the root
\* only, and folders without subfolders are duplicated
FlagUsers == {1}

NextFlags ==
    \/ \E u \in FlagUsers : nextFolderId <= MaxLockFolders /\ BuildFolder(u)
    \/ \E u \in FlagUsers : \E id \in Owned(u) : LockFolder(u, id)
    \/ \E u \in FlagUsers : \E id \in Owned(u) : \E skip \in BOOLEAN :
          UnlockFolder(u, id, NoPassword, skip)
    \/ \E u \in FlagUsers : \E id \in Owned(u) : ToggleImportant(u, id)
    \/ \E u \in FlagUsers : \E id \in Owned(u) : \E n \in RenameNames :
          RenameFolder(u, id, n)
    \/ \E u \in FlagUsers : \E id \in Owned(u) : MoveFolder(u, id, NULL)
    \/ \E u \in FlagUsers : \E id \in Owned(u) : DeleteFolder(u, id)
    \/ \E u \in FlagUsers : \E id \in Owned(u) :
          /\ nextFolderId <= MaxLockFolders /\ Children(id) = {}
          /\ DuplicateFolder(u, id, NULL)
    \/ DupListSubfolders
    \/ DupReturn

SpecFlags == Init /\ [][NextFlags]_vars

\* uploading files and filing them under categories; every principal has at
\* most one category of a name, so the Category table holds at most
\* MaxCategories rows
MaxCategories == Cardinality(DOMAIN SeededCategories) + Cardinality(Users)
CategoryIds == 1..MaxCategories

NextCategory ==
    \/ \E u \in Users : BuildFile(u, <<"notes">>)
    \/ \E u \in Users, n \in CategoryNames : GetOrCreateCategoryByName(u, n)
    \/ \E u \in Users, f \in FileIds \cup {NULL}, c \in CategoryIds \cup {NULL} :
          AssignCategoryToFile(u, f, c)

SpecCategory == InitCategories /\ [][NextCategory]_vars

\* placing files in folders and deleting folders, within MaxPlaceFolders
\* folders, MaxPlaceFiles new files and one copy of a file; every principal
\* names every file, and as destination the root, the folders and an id of no
\* folder
MaxPlaceFolders == 1
MaxPlaceFiles == 1
PlaceTargets == 0..(MaxPlaceFolders + 1)

NextPlace ==
    \/ \E u \in Users : nextFolderId <= MaxPlaceFolders /\ BuildFolder(u)
    \/ \E u \in Users, d \in PlaceTargets :
          nextFileId <= MaxPlaceFiles /\ UploadFile(u, TRUE, <<"notes">>, d, FALSE)
    \/ \E u \in Users, d \in PlaceTargets :
          nextFileId <= MaxPlaceFiles /\ CreateFile(u, <<"notes">>, d)
    \/ \E u \in Users, d \in PlaceTargets : \E id \in DOMAIN files : MoveFile(u, id, d)
    \/ \E u \in Users, d \in PlaceTargets : \E id \in DOMAIN files :
          MoveItem(u, id, "file", d)
    \/ \E u \in Users, d \in PlaceTargets : \E id \in DOMAIN files :
          nextFileId <= MaxPlaceFiles + 1 /\ DuplicateItem(u, id, "file", d)
    \/ \E u \in Users : \E id \in Owned(u) : DeleteFolder(u, id)
    \/ \E u \in Users : \E id \in DOMAIN folders : DeleteSubfolder(u, id)

SpecPlace == Init /\ [][NextPlace]_vars

\* files uploaded to the root, locked or not, then unlocked and deleted by
\* either principal
NextUnlockFile ==
    \/ \E u \in Users, l \in BOOLEAN : UploadFile(u, TRUE, <<"notes">>, NULL, l)
    \/ \E u \in Users, id \in FileIds : UnlockFile(u, id)
    \/ \E u \in Users, id \in FileIds : DeleteFile(u, id, TRUE)

SpecUnlockFile == Init /\ [][NextUnlockFile]_vars

\* files with content (uploadFile) and without (createFile), within
\* MaxDeleteFolders folders, deleted by either route with the unlink
\* succeeding or failing
MaxDeleteFolders == 1

NextFileDelete ==
    \/ \E u \in Users : nextFolderId <= MaxDeleteFolders /\ CreateFolder(u, <<"Docs">>, NULL)
    \/ \E u \in Users : BuildFile(u, <<"notes">>)
    \/ \E u \in Users : \E d \in Owned(u) : CreateFile(u, <<"notes">>, d)
    \/ \E u \in Users, id \in FileIds, ok \in BOOLEAN : DeleteFile(u, id, ok)
    \/ \E u \in Users, id \in FileIds, ok \in BOOLEAN : DeleteItem(u, id, "file", ok)

SpecFileDelete == Init /\ [][NextFileDelete]_vars

\* folders of both principals created under any folder, moved by their owner
\* (into their own subtree too) and opened
NextChain ==
    \/ \E u \in Users : BuildFolder(u)
    \/ \E u \in Users : \E id \in Owned(u) : \E p \in Owned(u) \cup {NULL} :
          MoveFolder(u, id, p)
    \/ \E u \in Users, id \in FolderIds : GetFolderById(u, id, NoPassword)

SpecChain == Init /\ [][NextChain]_vars

\* folders nested, locked, unlocked (by an unlock session) and opened
NextListing ==
    \/ \E u \in Users : BuildFolder(u)
    \/ \E u \in Users : \E id \in Owned(u) : LockFolder(u, id)
    \/ \E u \in Users : \E id \in Owned(u) : UnlockFolder(u, id, NoPassword, TRUE)
    \/ \E u \in Users, id \in FolderIds : GetFolderById(u, id, NoPassword)

SpecListing == Init /\ [][NextListing]_vars

\* every handler that writes a row, with requests it refuses: within
\* MaxRefuseFolders folders and MaxRefuseFiles files, both principals name
\* every id (an id has no row before it is issued and after a delete), every
\* destination, an id of no folder as destination and an unknown item type;
\* folder duplications are sent in the forms the handler refuses; principal 1
\* sets a lock password and principal 2 makes categories
MaxRefuseFolders == 1
MaxRefuseFiles == 1
RefuseFolderIds == 1..MaxRefuseFolders
RefuseFileIds == 1..MaxRefuseFiles
RefuseTargets == 0..(MaxRefuseFolders + 1)
RefuseCategoryIds == {NULL} \cup 1..Cardinality(Users)
RefusePasswords == {NoPassword, <<"p">>, <<"q">>}

NextRefuse ==
    \/ \E u \in Users, n \in FolderNames :
          nextFolderId <= MaxRefuseFolders /\ CreateFolder(u, n, NULL)
    \/ \E u \in Users, id \in RefuseFolderIds : DeleteFolder(u, id)
    \/ \E u \in Users, id \in RefuseFolderIds : DeleteSubfolder(u, id)
    \/ \E u \in Users, id \in RefuseFolderIds, p \in RefuseTargets : MoveFolder(u, id, p)
    \/ \E u \in Users, id \in RefuseFolderIds : LockFolder(u, id)
    \/ \E u \in Users, id \in RefuseFolderIds : ToggleImportant(u, id)
    \/ \E u \in Users, id \in RefuseFolderIds, n \in RenameNames : RenameFolder(u, id, n)
    \/ \E pw \in {NoPassword, <<"p">>} : SetLockPassword(1, pw)
    \/ \E u \in Users, id \in RefuseFolderIds, pw \in RefusePasswords, skip \in BOOLEAN :
          UnlockFolder(u, id, pw, skip)
    \/ \E u \in Users, h \in BOOLEAN, d \in RefuseTargets :
          nextFileId <= MaxRefuseFiles /\ UploadFile(u, h, <<"notes">>, d, TRUE)
    \/ \E u \in Users, n \in {<<>>, <<"notes">>}, d \in RefuseTargets :
          nextFileId <= MaxRefuseFiles /\ CreateFile(u, n, d)
    \/ \E u \in Users, id \in RefuseFileIds, d \in RefuseTargets : MoveFile(u, id, d)
    \/ \E u \in Users, id \in RefuseFileIds : DeleteFile(u, id, TRUE)
    \/ \E u \in Users, id \in RefuseFileIds : UnlockFile(u, id)
    \/ \E n \in CategoryNames : GetOrCreateCategoryByName(2, n)
    \/ \E u \in Users, f \in RefuseFileIds \cup {NULL}, c \in RefuseCategoryIds :
          AssignCategoryToFile(u, f, c)
    \/ \E u \in Users, id \in RefuseFolderIds, t \in RequestTypes, d \in RefuseTargets :
          MoveItem(u, id, t, d)
    \/ \E u \in Users, id \in RefuseFolderIds, t \in RequestTypes : DeleteItem(u, id, t, TRUE)
    \/ \E u \in Users, id \in RefuseFolderIds, d \in RefuseTargets :
          /\ id \notin Owned(u) \/ DestinationStatus(u, d) # 0
          /\ DuplicateFolder(u, id, d)
    \/ \E u \in Users, id \in RefuseFileIds, t \in RequestTypes \ {"folder"},
             d \in RefuseTargets :
          /\ nextFileId <= MaxRefuseFiles
          /\ DuplicateItem(u, id, t, d)

SpecRefuse == Init /\ [][NextRefuse]_vars

\* toggleImportant requests in flight together, on MaxToggleFolders folders
MaxToggleFolders == 2

NextToggle ==
    \/ \E u \in Users : nextFolderId <= MaxToggleFolders /\ CreateFolder(u, <<"Docs">>, NULL)
    \/ \E s \in Slots, u \in Users, id \in 1..MaxToggleFolders : ToggleImportantFind(s, u, id)
    \/ \E s \in Slots : ToggleImportantUpdate(s)

SpecToggle == Init /\ [][NextToggle]_vars

\* getOrCreateCategoryByName requests in flight together, while the Category
\* table holds fewer than MaxRaceCategories rows
MaxRaceCategories == 3

NextCategoryRace ==
    \/ \E s \in Slots, u \in Users, n \in CategoryNames :
          nextCategoryId <= MaxRaceCategories /\ CategoryFind(s, u, n)
    \/ \E s \in Slots : CategoryCreate(s)

SpecCategoryRace == Init /\ [][NextCategoryRace]_vars

\* locking folders that have contents and listing what is in them
NextLockList ==
    \/ \E u \in Users : nextFolderId <= MaxLockFolders /\ BuildFolder(u)
    \/ \E u \in Users : nextFileId <= MaxLockFiles /\ BuildFile(u, <<"notes">>)
    \/ \E u \in Users, id \in 1..MaxLockFolders : LockFolder(u, id)
    \/ \E u \in Users, p \in 0..MaxLockFolders : GetAllFolders(u, p)
    \/ \E u \in Users, d \in 0..MaxLockFolders : GetFilesInFolder(u, d)

SpecLockList == Init /\ [][NextLockList]_vars

\* folders and files moved and deleted by the dedicated and by the unified
\* routes, within MaxItemFolders folders and MaxItemFiles files
MaxItemFolders == 2
MaxItemFiles == 1
ItemFolderIds == 1..MaxItemFolders
ItemFileIds == 1..MaxItemFiles
ItemTargets == 0..MaxItemFolders

NextItems ==
    \/ \E u \in Users : nextFolderId <= MaxItemFolders /\ CreateFolder(u, <<"Docs">>, NULL)
    \/ \E u \in Users : nextFileId <= MaxItemFiles /\ BuildFile(u, <<"notes">>)
    \/ \E u \in Users, id \in ItemFolderIds, p \in ItemTargets : MoveFolder(u, id, p)
    \/ \E u \in Users, id \in ItemFileIds, d \in ItemTargets : MoveFile(u, id, d)
    \/ \E u \in Users, id \in ItemFolderIds : DeleteFolder(u, id)
    \/ \E u \in Users, id \in ItemFileIds, ok \in BOOLEAN : DeleteFile(u, id, ok)
    \/ \E u \in Users, id \in ItemFolderIds, t \in ItemTypes, d \in ItemTargets :
          MoveItem(u, id, t, d)
    \/ \E u \in Users, id \in ItemFolderIds, t \in ItemTypes, ok \in BOOLEAN :
          DeleteItem(u, id, t, ok)

SpecItems == Init /\ [][NextItems]_vars

\* every request
Next ==
    \/ \E u \in Users, n \in FolderNames, p \in Targets : CreateFolder(u, n, p)
    \/ \E u \in Users, id \in FolderIds : DeleteFolder(u, id)
    \/ \E u \in Users, id \in FolderIds : DeleteSubfolder(u, id)
    \/ \E u \in Users, id \in FolderIds, p \in Targets : MoveFolder(u, id, p)
    \/ \E u \in Users, id \in FolderIds : LockFolder(u, id)
    \/ \E u \in Users, id \in FolderIds : ToggleImportant(u, id)
    \/ \E u \in Users, id \in FolderIds, n \in RenameNames : RenameFolder(u, id, n)
    \/ \E u \in Users, pw \in Passwords : SetLockPassword(u, pw)
    \/ \E u \in Users, id \in FolderIds, pw \in Passwords, skip \in BOOLEAN :
          UnlockFolder(u, id, pw, skip)
    \/ \E u \in Users, h \in BOOLEAN, n \in FileNames, d \in Targets, l \in BOOLEAN :
          UploadFile(u, h, n, d, l)
    \/ \E u \in Users, n \in FileNames \cup {<<>>}, d \in Targets : CreateFile(u, n, d)
    \/ \E u \in Users, id \in FileIds, d \in Targets : MoveFile(u, id, d)
    \/ \E u \in Users, id \in FileIds, ok \in BOOLEAN : DeleteFile(u, id, ok)
    \/ \E u \in Users, id \in FileIds : UnlockFile(u, id)
    \/ \E u \in Users, n \in CategoryNames : GetOrCreateCategoryByName(u, n)
    \/ \E u \in Users, f \in FileIds \cup {NULL}, c \in CategoryIds \cup {NULL} :
          AssignCategoryToFile(u, f, c)
    \/ \E u \in Users, id \in FolderIds \cup FileIds, t \in RequestTypes, d \in Targets :
          MoveItem(u, id, t, d)
    \/ \E u \in Users, id \in FolderIds \cup FileIds, t \in RequestTypes, ok \in BOOLEAN :
          DeleteItem(u, id, t, ok)
    \/ \E u \in Users, id \in FolderIds, d \in Targets : DuplicateFolder(u, id, d)
    \/ \E u \in Users, id \in FileIds, t \in RequestTypes \ {"folder"}, d \in Targets :
          DuplicateItem(u, id, t, d)
    \/ DupFile
    \/ DupListSubfolders
    \/ DupSubfolder
    \/ DupReturn
    \/ DupFail
    \/ \E u \in Users, id \in FolderIds, pw \in Passwords : GetFolderById(u, id, pw)
    \/ \E u \in Users, p \in Targets : GetAllFolders(u, p)
    \/ \E u \in Users, d \in Targets : GetFilesInFolder(u, d)
    \/ \E u \in Users, id \in FileIds : GetSingleFile(u, id)
    \/ \E u \in Users, id \in FileIds : ServeFile(u, id)
    \/ \E u \in Users, id \in FolderIds \cup FileIds, t \in RequestTypes : ShareItem(u, id, t)
    \/ \E u \in Users, ids \in SUBSET FolderIds : ShareFolders(u, ids)

Spec == Init /\ [][Next]_vars

\* ================================================================ claims
\* the folders met by following parentId upwards from folder f, in the table fs
RECURSIVE AncestorsWithin(_, _, _)
AncestorsWithin(fs, f, n) ==
    IF n = 0 \/ f \notin DOMAIN fs THEN {}
    ELSE IF fs[f].parentId = NULL THEN {}
    ELSE {fs[f].parentId} \cup AncestorsWithin(fs, fs[f].parentId, n - 1)

Ancestors(fs, f) == AncestorsWithin(fs, f, Cardinality(DOMAIN fs))

\* the folders of the subtree of f: f and the folders that have f above them
Subtree(fs, f) == {g \in DOMAIN fs : g = f \/ f \in Ancestors(fs, g)}

FolderDeleted(r) ==
    r.op \in {"deleteFolder", "deleteItem"} /\ r.kind = "folder" /\ r.status = 200

\* C1: in every reachable state no folder is its own ancestor (the parent
\* chain of every folder is finite and acyclic).
C1_ParentChainsAcyclic ==
    \A f \in DOMAIN folders : f \notin Ancestors(folders, f)

\* C2: a moveFolder(F, D) by the owner of F and D, with D = F or D a
\* descendant of F, is refused with a 4xx conflict answer and leaves the
\* parentId of F as it was.
C2_MoveIntoSubtreeRefused ==
    [][\A u \in Users, f \in FolderIds, d \in FolderIds :
          (/\ MoveFolder(u, f, d)
           /\ f \in Owned(u) /\ d \in Owned(u)
           /\ d \in Subtree(folders, f))
          => (/\ resp'.status \in {400, 409}
              /\ folders'[f].parentId = folders[f].parentId)]_vars

\* C3: for every folder F, getParentChain(F) by the owner returns, its chain
\* is no longer than the number of ancestors of F, and F is not in the chain.
C3_ParentChainEnds ==
    \A f \in DOMAIN folders :
        LET r == GetParentChain(f, folders[f].userId)
        IN /\ r.done
           /\ f \notin Range(r.chain)
           /\ Len(r.chain) <= Cardinality(Ancestors(folders, f))

\* C4: a request of principal p changes or removes only folder and file rows
\* whose userId is p.
C4_OnlyOwnRowsChange ==
    [][/\ \A id \in DOMAIN folders :
            (id \notin DOMAIN folders' \/ folders'[id] # folders[id])
            => folders[id].userId = resp'.user
       /\ \A id \in DOMAIN files :
            (id \notin DOMAIN files' \/ files'[id] # files[id])
            => files[id].userId = resp'.user]_vars

\* C5: every folder row, file row and file content an answer carries belongs
\* to the principal of the request.
C5_OnlyOwnRowsRevealed ==
    /\ \A g \in resp.out.folders : g \in DOMAIN folders => folders[g].userId = resp.user
    /\ \A f \in resp.out.files : f \in DOMAIN files => files[f].userId = resp.user
    /\ \A c \in resp.out.content :
          \A f \in DOMAIN files : files[f].url = c => files[f].userId = resp.user

\* C6: a request that names a folder or file by id is answered NotFound when
\* the row does not exist and Forbidden when it exists with another userId.
IdRequests ==
    {"deleteFolder", "deleteSubfolder", "moveFolder", "lockFolder", "toggleImportant",
     "getFolderById", "moveFile", "deleteFile", "unlockFile", "moveItem", "deleteItem",
     "duplicateItem", "getSingleFile", "serveFile", "shareItem"}

C6_ExistenceThenOwnership ==
    [][(resp' # resp /\ resp'.op \in IdRequests /\ resp'.kind \in ItemTypes)
       => LET id == resp'.id
              exists == IF resp'.kind = "folder" THEN id \in DOMAIN folders
                        ELSE id \in DOMAIN files
              owner == IF resp'.kind = "folder" THEN folders[id].userId
                       ELSE files[id].userId
          IN /\ ~exists => resp'.status = 404
             /\ (exists /\ owner # resp'.user) => resp'.status = 403]_vars

\* C7: createFolder with a parentId creates a folder only if the parent
\* exists and is the caller's; otherwise the request fails and the folder
\* table is unchanged.
C7_CreateFolderChecksParent ==
    [][\A u \in Users, n \in FolderNames, p \in FolderIds :
          (CreateFolder(u, n, p) /\ p \notin Owned(u))
          => (resp'.status \notin {200, 201} /\ folders' = folders)]_vars

\* C8: after a successful deleteFolder(F), by either route, F, every folder
\* that had F above it and every file placed in one of them has no row left,
\* and a removed id never gets a row again.
C8_DeleteFolderCascades ==
    [][/\ FolderDeleted(resp')
          => \A g \in Subtree(folders, resp'.id) :
                /\ g \notin DOMAIN folders'
                /\ \A x \in DOMAIN files : files[x].folderId = g => x \notin DOMAIN files'
       /\ \A g \in FolderIds : (g < nextFolderId /\ g \notin DOMAIN folders)
                                  => g \notin DOMAIN folders'
       /\ \A x \in FileIds : (x < nextFileId /\ x \notin DOMAIN files)
                                => x \notin DOMAIN files']_vars

\* a delete that removed a folder below the deleted one and a file with them
C8_Witness ==
    /\ FolderDeleted(resp)
    /\ Cardinality(resp.gone.folders) >= 2
    /\ resp.gone.files # {}

\* C9: after a successful deleteFolder(F) the content store holds no content
\* of a file that was placed in F or in a folder below F.
C9_DeleteFolderRemovesContent ==
    [][FolderDeleted(resp')
       => \A x \in DOMAIN files :
             files[x].folderId \in Subtree(folders, resp'.id) => files[x].url \notin store']_vars

\* C10: a finished duplicate(F, Folder, D) has made under D a folder whose
\* subtree has the shape of F's subtree, every copied folder and file named
\* as its original followed by " (Copy)".
ChildFolders(g) == {h \in DOMAIN folders : folders[h].parentId = g}
ChildFiles(g) == {x \in DOMAIN files : files[x].folderId = g}

Bijections(A, B) ==
    {m \in [A -> B] : \A b \in B : \E a \in A : m[a] = b}

RECURSIVE IsCopyOf(_, _, _)
IsCopyOf(c, o, n) ==
    /\ folders[c].name = folders[o].name \o <<" (Copy)">>
    /\ Cardinality(ChildFiles(c)) = Cardinality(ChildFiles(o))
    /\ \E m \in Bijections(ChildFiles(o), ChildFiles(c)) :
          \A x \in ChildFiles(o) : files[m[x]].name = files[x].name \o <<" (Copy)">>
    /\ Cardinality(ChildFolders(c)) = Cardinality(ChildFolders(o))
    /\ \/ ChildFolders(o) = {}
       \/ /\ n > 0
          /\ \E m \in Bijections(ChildFolders(o), ChildFolders(c)) :
                \A g \in ChildFolders(o) : IsCopyOf(m[g], g, n - 1)

C10_DuplicateIsomorphic ==
    (resp.op = "duplicateItem" /\ resp.kind = "folder" /\ resp.status = 200)
    => \A c \in resp.out.folders :
          /\ folders[c].parentId = resp.target
          /\ IsCopyOf(c, resp.id, MaxFolders)

\* the folder rows that existed when the running duplication was accepted
\* (requests are served one at a time, so none of them has changed since)
FoldersBefore == Restrict(folders, {g \in DOMAIN folders : g < dup.root})

\* the folder rows the running duplication has created so far
CreatedFolders == {g \in DOMAIN folders : g >= dup.root}

\* C11: duplicate(F, Folder, D) terminates for every destination of the
\* caller, D = F and D below F included: a running duplication takes only
\* folders that existed before it as sources, and never creates more folders
\* than the subtree of F held when the request arrived.
C11_DuplicateTerminates ==
    dup.active
    => /\ \A i \in DOMAIN dup.stack : dup.stack[i].src < dup.root
       /\ Cardinality(CreatedFolders) <= Cardinality(Subtree(FoldersBefore, dup.src))

\* C12: folder duplication is atomic: when a step of duplicate(F, Folder, D)
\* fails partway (the request is answered 500), no folder row, file row or
\* stored content created by that duplicate remains.
C12_DuplicateAtomic ==
    [][DupFail
       => /\ \A g \in DOMAIN folders' : g < dup.root
          /\ \A x \in DOMAIN files' : files'[x].folderId < dup.root
          /\ \A x \in DOMAIN files : files[x].folderId >= dup.root
                                       => files[x].url \notin store']_vars

\* C13: unlockFolder on a locked folder of the caller clears isLocked exactly
\* when skipCheck is set or the password sent verifies against the caller's
\* account lock-password hash; otherwise the folder table is unchanged and
\* the answer is an error other than Forbidden, 401 when the password sent
\* was compared with the stored hash and did not match.
C13_UnlockFolderChecksPassword ==
    [][(/\ resp'.op = "unlockFolder"
        /\ resp'.id \in Owned(resp'.user)
        /\ folders[resp'.id].isLocked)
       => LET u == resp'.user
              id == resp'.id
              stored == lockPasswords[u] # NoHash
          IN \A pw \in Passwords, skip \in BOOLEAN :
                UnlockFolder(u, id, pw, skip)
                => LET verifies == pw # NoPassword /\ stored /\ lockPasswords[u] = Hash(pw)
                   IN /\ ~folders'[id].isLocked <=> (skip \/ verifies)
                      /\ (skip \/ verifies) => resp'.status = 200
                      /\ ~(skip \/ verifies)
                            => /\ folders' = folders
                               /\ resp'.status \in {400, 401}
                               /\ resp'.status = 401 <=> (pw # NoPassword /\ stored)]_vars

\* an unlock refused for a wrong password: the folder is still locked
C13_Witness ==
    /\ resp.op = "unlockFolder" /\ resp.status = 401
    /\ resp.id \in Owned(resp.user)
    /\ folders[resp.id].isLocked
    /\ lockPasswords[resp.user] # NoHash

\* C14: getFolderById on a locked folder of the caller answers with the
\* folder's subfolders and files exactly when the password sent verifies
\* against the caller's account lock-password hash (the check of unlockFolder).
C14_LockedFolderOpensWithPassword ==
    [][(/\ resp'.op = "getFolderById"
        /\ resp'.id \in Owned(resp'.user)
        /\ folders[resp'.id].isLocked)
       => LET u == resp'.user
              id == resp'.id
          IN \A pw \in Passwords :
                GetFolderById(u, id, pw)
                => LET verifies == /\ pw # NoPassword
                                   /\ lockPasswords[u] # NoHash
                                   /\ lockPasswords[u] = Hash(pw)
                   IN /\ ~verifies => resp'.status # 200 /\ resp'.out = NoOut
                      /\ verifies
                            => /\ resp'.status = 200
                               /\ {g \in DOMAIN folders :
                                      folders[g].parentId = id /\ ~folders[g].isLocked}
                                     \subseteq resp'.out.folders
                               /\ resp'.out.files
                                     = {f \in DOMAIN files : files[f].folderId = id}]_vars

\* C15: lockFolder is idempotent: every lockFolder(F) by the owner, on a
\* folder locked already as on an unlocked one, is answered 200 and leaves
\* isLocked = TRUE with the other fields of F and the other folders unchanged.
C15_LockFolderIdempotent ==
    [][(resp'.op = "lockFolder" /\ resp'.id \in Owned(resp'.user))
       => /\ resp'.status = 200
          /\ folders' = [folders EXCEPT ![resp'.id].isLocked = TRUE]
          /\ folders[resp'.id].isLocked => folders' = folders]_vars

\* a lock answered 200 on a folder whose other flag is set
C15_Witness ==
    /\ resp.op = "lockFolder" /\ resp.status = 200
    /\ resp.id \in Owned(resp.user)
    /\ folders[resp.id].isLocked
    /\ folders[resp.id].isImportant

\* C16: unlockFolder by the owner on a folder that is not locked is answered
\* with an error (400, never 200), whatever password and skipCheck are sent,
\* and leaves the folder table unchanged.
C16_UnlockUnlockedRefused ==
    [][(/\ resp'.op = "unlockFolder"
        /\ resp'.id \in Owned(resp'.user)
        /\ ~folders[resp'.id].isLocked)
       => /\ resp'.status = 400
          /\ folders' = folders
          /\ \A pw \in Passwords, skip \in BOOLEAN :
                UnlockFolder(resp'.user, resp'.id, pw, skip)]_vars

\* an unlock refused on an unlocked folder whose owner has a lock password
C16_Witness ==
    /\ resp.op = "unlockFolder" /\ resp.status = 400
    /\ resp.id \in Owned(resp.user)
    /\ ~folders[resp.id].isLocked
    /\ lockPasswords[resp.user] # NoHash

\* C17: the lock flag and the important flag of a folder are independent:
\* toggleImportant by the owner succeeds on a locked folder, flips isImportant
\* and leaves isLocked as it was; lockFolder and unlockFolder leave isImportant
\* as it was; and isLocked of a folder that exists before and after a request
\* changes only to TRUE by lockFolder and to FALSE by an unlockFolder answered
\* 200, each on the folder the request names.
C17_LockAndImportantIndependent ==
    [][/\ (resp'.op = "toggleImportant" /\ resp'.id \in Owned(resp'.user))
          => /\ resp'.status = 200
             /\ folders' = [folders EXCEPT ![resp'.id].isImportant =
                                               ~folders[resp'.id].isImportant]
       /\ \A g \in DOMAIN folders \cap DOMAIN folders' :
             /\ resp'.op \in {"lockFolder", "unlockFolder"}
                   => folders'[g].isImportant = folders[g].isImportant
             /\ folders'[g].isLocked # folders[g].isLocked
                   => /\ g = resp'.id
                      /\ \/ resp'.op = "lockFolder" /\ folders'[g].isLocked
                         \/ /\ resp'.op = "unlockFolder" /\ resp'.status = 200
                            /\ ~folders'[g].isLocked]_vars

\* an important mark set on a locked folder, which is still locked
C17_Witness ==
    /\ resp.op = "toggleImportant" /\ resp.status = 200
    /\ resp.id \in Owned(resp.user)
    /\ folders[resp.id].isLocked
    /\ folders[resp.id].isImportant

\* C18: assignCategory(fileId, categoryId) by principal p succeeds only if
\* the file is p's and the category is global or p's, and then files the file
\* under the category; a category of another principal is refused, with 403
\* when the file is p's, and a refused request leaves the File table unchanged.
C18_AssignCategoryChecksOwner ==
    [][resp'.op = "assignCategoryToFile"
       => LET u == resp'.user
              f == resp'.id
              c == resp'.target
              own == f \in DOMAIN files /\ files[f].userId = u
              usable == c \in DOMAIN categories /\ categories[c].userId \in {NULL, u}
              foreign == c \in DOMAIN categories /\ categories[c].userId \notin {NULL, u}
          IN /\ resp'.status = 200 <=> (own /\ usable)
             /\ resp'.status = 200 => files' = [files EXCEPT ![f].categoryId = c]
             /\ resp'.status # 200 => files' = files
             /\ (own /\ foreign) => resp'.status = 403]_vars

\* the owner of a file refused (403) the "Work" category of another principal
\* while a global category of the same name exists; the file is as it was
C18_Witness ==
    /\ resp.op = "assignCategoryToFile" /\ resp.status = 403
    /\ resp.id \in DOMAIN files /\ files[resp.id].userId = resp.user
    /\ resp.target \in DOMAIN categories
    /\ categories[resp.target].userId \notin {NULL, resp.user}
    /\ \E g \in DOMAIN categories :
          categories[g].userId = NULL /\ categories[g].name = categories[resp.target].name
    /\ files[resp.id].categoryId # resp.target

\* C19: in every reachable state each file with a folderId references an
\* existing folder of the file's own user.
C19_FilesInOwnFolders ==
    \A f \in DOMAIN files :
        files[f].folderId # NULL
        => /\ files[f].folderId \in DOMAIN folders
           /\ folders[files[f].folderId].userId = files[f].userId

\* a file uploaded, moved or copied into a folder of its owner, after a
\* request of that owner
C19_Witness ==
    /\ resp.op \in {"uploadFile", "createFile", "moveFile", "moveItem", "duplicateItem"}
    /\ resp.status \in {200, 201}
    /\ resp.target # NULL
    /\ \E f \in DOMAIN files :
          /\ files[f].folderId = resp.target
          /\ files[f].userId = resp.user
          /\ folders[resp.target].userId = resp.user

\* C20: unlockFile on a file that exists, belongs to the caller and is not
\* locked is answered 400 (NotLocked) and leaves the file table unchanged; a
\* missing file is answered 404 and another user's file 403 whatever its
\* flag, so 400 is given only for a file that exists and is the caller's
C20_UnlockFileNotLocked ==
    [][resp'.op = "unlockFile"
       => LET u == resp'.user
              id == resp'.id
          IN /\ ~FileExists(id) => resp'.status = 404 /\ files' = files
             /\ (FileExists(id) /\ files[id].userId # u)
                   => resp'.status = 403 /\ files' = files
             /\ (FileExists(id) /\ files[id].userId = u /\ ~files[id].isLocked)
                   => resp'.status = 400 /\ files' = files
             /\ resp'.status = 400
                   => FileExists(id) /\ files[id].userId = u /\ ~files[id].isLocked]_vars

\* an unlock of the caller's own unlocked file was answered 400 while an
\* unlocked file of the other principal exists too
C20_Witness ==
    /\ resp.op = "unlockFile"
    /\ resp.status = 400
    /\ FileExists(resp.id)
    /\ files[resp.id].userId = resp.user
    /\ ~files[resp.id].isLocked
    /\ \E g \in DOMAIN files : files[g].userId # resp.user /\ ~files[g].isLocked

\* C21: a deleteFile by the owner of an existing file, by DELETE /files/:id
\* or deleteItem(type=file), is answered 200 and removes the record of that
\* file and of no other, whether its content was unlinked, could not be
\* unlinked or was not there.
C21_DeleteFileAlwaysRemovesRecord ==
    [][(/\ resp'.op \in {"deleteFile", "deleteItem"} /\ resp'.kind = "file"
        /\ FileExists(resp'.id) /\ files[resp'.id].userId = resp'.user)
       => /\ resp'.status = 200
          /\ files' = Restrict(files, DOMAIN files \ {resp'.id})
          /\ store \ {files[resp'.id].url} \subseteq store']_vars

\* both routes have removed a record whose content could not be unlinked,
\* so that the contents of two deleted files are still stored
C21_Witness ==
    /\ resp.op = "deleteItem" /\ resp.kind = "file" /\ resp.status = 200
    /\ files = <<>>
    /\ Cardinality(store) = 2

\* C22: shareFolders(folderIds) produces an archive only if every named
\* folder exists and is the caller's: a request naming a folder of another
\* user, or an id of no folder, is not answered with an archive.
C22_ExportRequiresAllOwned ==
    [][\A u \in Users, ids \in SUBSET FolderIds :
          (ShareFolders(u, ids) /\ ~(ids \subseteq Owned(u)))
          => resp'.status \notin {0, 200}]_vars

\* c lists, from the root-most one down to the parent of f, the folders above
\* f that are u's, up to the first one that is missing or not u's
IsOwnedChainOf(c, f, u) ==
    IF ~FolderExists(f) \/ folders[f].userId # u THEN c = <<>>
    ELSE /\ c # <<>> => c[Len(c)] = folders[f].parentId
         /\ \A i \in DOMAIN c : FolderExists(c[i]) /\ folders[c[i]].userId = u
         /\ \A i \in 1..(Len(c) - 1) : folders[c[i + 1]].parentId = c[i]
         /\ LET above == IF c = <<>> THEN folders[f].parentId ELSE folders[c[1]].parentId
            IN above = NULL \/ ~FolderExists(above) \/ folders[above].userId # u

\* C23: for every folder id F and caller, a getParentChain(F) that returns
\* gives the ancestors of F from the root-most one down to F's parent, cut at
\* the first ancestor that is missing or not the caller's (only the ancestors
\* below it are returned), and the empty chain if F is missing or not the
\* caller's.
C23_ParentChainOrdered ==
    \A f \in FolderIds, u \in Users :
        GetParentChain(f, u).done => IsOwnedChainOf(GetParentChain(f, u).chain, f, u)

\* a folder was opened that has two ancestors in its chain
C23_Witness ==
    /\ resp.op = "getFolderById" /\ resp.status = 200
    /\ Len(GetParentChain(resp.id, resp.user).chain) = 2

\* C24: the subfolder listing of an opened folder holds no locked folder and
\* holds every unlocked folder whose parentId is the opened folder.
C24_ListingHidesLockedSubfolders ==
    (resp.op = "getFolderById" /\ resp.status = 200)
    => /\ \A g \in resp.subfolders : ~folders[g].isLocked
       /\ \A g \in DOMAIN folders :
             (folders[g].parentId = resp.id /\ ~folders[g].isLocked)
             => g \in resp.subfolders
       /\ \A g \in resp.subfolders : folders[g].parentId = resp.id

\* a folder with a locked and an unlocked subfolder was opened
C24_Witness ==
    /\ resp.op = "getFolderById" /\ resp.status = 200
    /\ \E g, h \in DOMAIN folders :
          /\ folders[g].parentId = resp.id /\ folders[g].isLocked
          /\ folders[h].parentId = resp.id /\ ~folders[h].isLocked
          /\ h \in resp.subfolders

\* C25: in every reachable state every folder with a parentId has a parent
\* row, and that row has the userId of the folder itself.
C25_FoldersInOwnFolders ==
    \A g \in DOMAIN folders :
        folders[g].parentId # NULL
        => /\ FolderExists(folders[g].parentId)
           /\ folders[folders[g].parentId].userId = folders[g].userId

\* the answers NotFound, Forbidden, InvalidInput, Conflict,
\* AuthenticationFailed and NotLocked
RefusedStatuses == {400, 401, 403, 404, 409}

\* C26: a request answered NotFound, Forbidden, InvalidInput, Conflict,
\* AuthenticationFailed or NotLocked leaves every folder, file and category
\* row as it was, and issues no id.
C26_RefusedRequestsChangeNothing ==
    [][resp'.status \in RefusedStatuses
       => /\ folders' = folders
          /\ files' = files
          /\ categories' = categories
          /\ UNCHANGED <<nextFolderId, nextFileId, nextCategoryId>>]_vars

\* an unlock with a wrong password was answered 401 while a file and a
\* category exist, and the folder is still locked
C26_Witness ==
    /\ resp.op = "unlockFolder" /\ resp.status = 401
    /\ folders[resp.id].isLocked
    /\ files # <<>>
    /\ categories # <<>>

\* C27: every successful toggleImportant flips isImportant, also when another
\* toggleImportant on the same folder is in flight: its write inverts the
\* value stored when it writes (so two toggles, however their reads and
\* writes interleave, leave isImportant as it was before them).
C27_ToggleFlipsOnce ==
    [][\A s \in Slots :
          (ToggleImportantUpdate(s) /\ resp'.status = 200)
          => folders'[calls[s].id].isImportant = ~folders[calls[s].id].isImportant]_vars

\* C28: at most one category of a name exists for a principal, whatever the
\* number of getOrCreateCategoryByName calls with that name and however
\* their find and create statements interleave.
C28_OneCategoryPerName ==
    \A u \in Users, c \in DOMAIN categories, d \in DOMAIN categories :
        (categories[c].userId = u /\ categories[d].userId = u
         /\ categories[c].name = categories[d].name)
        => c = d

\* C29: while a folder is locked (and no unlock check for it has passed) a
\* listing of its files or of its subfolders carries no row: getFilesInFolder
\* and getAllFolders asked for a locked folder answer with nothing of it.
C29_LockedFolderNotListed ==
    (/\ resp.op \in {"getFilesInFolder", "getAllFolders"}
     /\ FolderExists(resp.id)
     /\ folders[resp.id].isLocked)
    => (resp.out.files = {} /\ resp.out.folders = {})

\* DELETE /folders/:id, answering as handler op
FolderDeleteAs(op, u, id) ==
    IF ~FolderExists(id)
    THEN /\ resp' = Response(op, u, "folder", id, NULL, 404)
         /\ UNCHANGED <<folders, files>>
    ELSE IF folders[id].userId # u
    THEN /\ resp' = Response(op, u, "folder", id, NULL, 403)
         /\ UNCHANGED <<folders, files>>
    ELSE FolderDelete(op, u, id)

\* C30: for every state, caller and arguments a unified item request is
\* answered with the status, and leaves the folder rows, the file rows and
\* the stored contents, that the dedicated route gives for the same
\* arguments: moveItem(folder) as moveFolder, moveItem(file) as moveFile,
\* deleteItem(folder) as deleteFolder, deleteItem(file) as deleteFile.
C30_ItemRoutesAsDedicatedRoutes ==
    [][/\ (resp'.op = "moveItem" /\ resp'.kind = "folder")
          => \A u \in Users, id \in ItemFolderIds, d \in ItemTargets :
                MoveItem(u, id, "folder", d)
                => FolderMove("moveItem", u, id, d) /\ UNCHANGED <<files, store>>
       /\ (resp'.op = "moveItem" /\ resp'.kind = "file")
          => \A u \in Users, id \in ItemFolderIds, d \in ItemTargets :
                MoveItem(u, id, "file", d)
                => FileMove("moveItem", u, id, d) /\ UNCHANGED <<folders, store>>
       /\ (resp'.op = "deleteItem" /\ resp'.kind = "folder")
          => \A u \in Users, id \in ItemFolderIds, ok \in BOOLEAN :
                DeleteItem(u, id, "folder", ok)
                => FolderDeleteAs("deleteItem", u, id) /\ UNCHANGED store
       /\ (resp'.op = "deleteItem" /\ resp'.kind = "file")
          => \A u \in Users, id \in ItemFolderIds, ok \in BOOLEAN :
                DeleteItem(u, id, "file", ok)
                => FileDelete("deleteItem", u, id, ok) /\ UNCHANGED folders]_vars

\* the unified route refused to move a folder of the caller into itself
C30_Witness ==
    /\ resp.op = "moveItem" /\ resp.kind = "folder" /\ resp.status = 400
    /\ resp.id = resp.target
    /\ FolderExists(resp.id) /\ folders[resp.id].userId = resp.user

====
